---- MODULE Spec2Model ----
(***************************************************************************)
(* Model of src/android/mm/generic_frame_buffer_allocator.cpp:             *)
(* PlatformFrameBufferAllocator::Private (the allocation session),         *)
(* its allocate() and GenericFrameBufferData (the allocated buffer         *)
(* resource whose destructor frees the gralloc handle).                    *)
(*                                                                         *)
(* The platform allocator (android::GraphicBufferAllocator) is an external *)
(* collaborator: its replies are drawn nondeterministically.  The owner of *)
(* the session and of the returned buffers is the caller, so the order of  *)
(* allocate, buffer destruction and session destruction is the caller's.   *)
(***************************************************************************)
EXTENDS Integers, Sequences, FiniteSets, TLC

(* Bounds of the model. *)
\* number of buffers one run of the model allocates
MaxAllocs == 2
\* largest num_planes (and length of the fds array) of a vendor handle
MaxPlanes == 2

(* android::NO_ERROR, the one success status. *)
NO_ERROR == 0
(* The null buffer_handle_t. *)
nullptr == 0

(* Status codes the platform allocator may return: success, or -ENOMEM. *)
Statuses == {NO_ERROR, -12}

(* HAL pixel format codes a caller requests: BLOB (0x21), YCbCr_420_888 (0x23). *)
HalFormats == {33, 35}

(* Non-null buffer_handle_t values, named in the order the platform issues them. *)
Handles == 1..MaxAllocs

(* Per-plane geometry a vendor handle may state: offsets[i], sizes[i]. *)
VendorPlanes ==
  { [offset |-> 4096, size |-> 460800],
    [offset |-> 0, size |-> 0] }

(* The fds array of a handle (handle->data): distinct descriptors per index, *)
(* or one descriptor repeated.                                               *)
FdArrays ==
  { [i \in 1..MaxPlanes |-> 2 + i], [i \in 1..MaxPlanes |-> 7] }

RECURSIVE SeqsUpTo(_, _)
SeqsUpTo(S, n) ==
  IF n = 0 THEN { <<>> }
  ELSE LET shorter == SeqsUpTo(S, n - 1)
       IN  shorter \cup { Append(s, x) : s \in { t \in shorter : Len(t) = n - 1 }, x \in S }

(* The memory a non-null handle points to, read as a cros_gralloc_handle:   *)
(* num_planes, fds[] (= native_handle_t::data[]), offsets[], sizes[].       *)
(* planes[i] holds offsets[i-1] and sizes[i-1] of the C arrays.             *)
VendorHandles ==
  { [num_planes |-> Len(ps), fds |-> f, planes |-> ps] :
      ps \in SeqsUpTo(VendorPlanes, MaxPlanes), f \in FdArrays }

(* What the handle out-parameter refers to when no buffer was allocated. *)
NoVendor == [num_planes |-> 0, fds |-> [i \in 1..MaxPlanes |-> -1], planes |-> <<>>]

(* PixelFormatInfo::info(toPixelFormat(halPixelFormat)).numPlanes():         *)
(* the format table's declared plane count (MJPEG: 1, NV12: 2).              *)
numPlanes(halPixelFormat) == IF halPixelFormat = 35 THEN 2 ELSE 1

VARIABLES
  sessionAlive,   \* PlatformFrameBufferAllocator::Private exists
  issued,         \* handles the platform allocator has handed out
  freeCalls,      \* per handle value: number of allocDevice_.free(handle) calls
  buffers,        \* every GenericFrameBufferData constructed, in order
  lastReply,      \* the platform's answer to the last allocDevice_.allocate call
  ret,            \* what the last allocate() returned
  dereferenced,   \* handle values allocate() has read through
  lastFree,       \* the last free call: its status and whether the session lived
  lastLog         \* severity of the last message logged

vars == << sessionAlive, issued, freeCalls, buffers, lastReply, ret,
           dereferenced, lastFree, lastLog >>

(* The absent result: return nullptr. *)
Absent == [present |-> FALSE, handle |-> nullptr, planes |-> <<>>]
NoReply == [status |-> NO_ERROR, handle |-> nullptr, vendor |-> NoVendor, format |-> 0]
NoFree == [called |-> FALSE, status |-> NO_ERROR, sessionAlive |-> TRUE]

(* SharedFD(const int &fd): a shared descriptor duplicated from fd. *)
SharedFD(fd) == [dupOf |-> fd]

(* Variant: the status check is missing. *)
StatusOkIgnored(status) == TRUE

(* if (status != android::NO_ERROR) return nullptr; *)
StatusOk(status) == status = NO_ERROR

(* Variant: the null check is missing. *)
HandleValidUnchecked(handle) == TRUE

(* Variant: the null check is inverted, if (handle) return nullptr. *)
HandleValidInverted(handle) == handle = nullptr

(* if (!handle) return nullptr; *)
HandleValid(handle) == handle # nullptr

(* offsets[i-1] and sizes[i-1] of the fixed-size C arrays: slots past         *)
(* num_planes hold zeros.                                                    *)
VendorSlot(vendor, i) ==
  IF i \in 1..Len(vendor.planes) THEN vendor.planes[i] ELSE [offset |-> 0, size |-> 0]

(* Variant: the plane count comes from the format table,                     *)
(* planes(info.numPlanes()).                                                 *)
BuildPlanesInferredCount(vendor, halPixelFormat) ==
  LET fd == SharedFD(vendor.fds[1])
  IN  [i \in 1..numPlanes(halPixelFormat) |->
         [fd |-> fd, offset |-> VendorSlot(vendor, i).offset,
          length |-> VendorSlot(vendor, i).size]]

RECURSIVE RunningTotal(_, _)
RunningTotal(vendor, i) ==
  IF i <= 1 THEN 0 ELSE RunningTotal(vendor, i - 1) + vendor.planes[i - 1].size

(* Variant: plane.offset = offset, the running total of the sizes.           *)
BuildPlanesConsecutive(vendor, halPixelFormat) ==
  LET fd == SharedFD(vendor.fds[1])
  IN  [i \in 1..vendor.num_planes |->
         [fd |-> fd, offset |-> RunningTotal(vendor, i), length |-> vendor.planes[i].size]]

(* Variant: planeSize = info.planeSize(size.height, i, stride), the format   *)
(* table's size of the plane (640x480 NV12: 460800, then 230400).            *)
BuildPlanesInferredSize(vendor, halPixelFormat) ==
  LET fd == SharedFD(vendor.fds[1])
  IN  [i \in 1..vendor.num_planes |->
         [fd |-> fd, offset |-> vendor.planes[i].offset,
          length |-> IF i = 1 THEN 460800 ELSE 230400]]

(* Variant: each plane takes its own descriptor, SharedFD fdd{ handle->data[i] }. *)
BuildPlanesPerPlaneFd(vendor, halPixelFormat) ==
  [i \in 1..vendor.num_planes |->
     [fd |-> SharedFD(vendor.fds[i]), offset |-> vendor.planes[i].offset,
      length |-> vendor.planes[i].size]]

(* std::vector<FrameBuffer::Plane> planes(cros_handle->num_planes);          *)
(* SharedFD fd{ handle->data[0] };                                           *)
(* each plane: fd, offset = offsets[i], length = sizes[i].                   *)
BuildPlanes(vendor, halPixelFormat) ==
  LET fd == SharedFD(vendor.fds[1])
  IN  [i \in 1..vendor.num_planes |->
         [fd |-> fd, offset |-> vendor.planes[i].offset, length |-> vendor.planes[i].size]]

(* GenericFrameBufferData(allocDevice, handle, planes) *)
GenericFrameBufferData(handle, planes) ==
  [handle_ |-> handle, planes |-> planes, alive |-> TRUE]

(* The handle the platform issues next: one it has not handed out yet. *)
FreshHandle == CHOOSE h \in Handles \ issued : \A g \in Handles \ issued : h <= g

(* allocDevice_.allocate(...): every (status, handle, handle memory) the      *)
(* platform may answer with.  A failure allocates nothing and leaves the      *)
(* handle out-parameter null or holding an unspecified value.                 *)
AllocReplies ==
  { [status |-> NO_ERROR, handle |-> FreshHandle, vendor |-> v] : v \in VendorHandles }
  \cup { [status |-> NO_ERROR, handle |-> nullptr, vendor |-> NoVendor] }
  \cup { [status |-> s, handle |-> h, vendor |-> NoVendor] :
           s \in Statuses \ {NO_ERROR}, h \in {nullptr} \cup Handles }

Init ==
  /\ sessionAlive = TRUE
  /\ issued = {}
  /\ freeCalls = [h \in {nullptr} \cup Handles |-> 0]
  /\ buffers = <<>>
  /\ lastReply = NoReply
  /\ ret = Absent
  /\ dereferenced = {}
  /\ lastFree = NoFree
  /\ lastLog = "None"

(* PlatformFrameBufferAllocator::Private::allocate(halPixelFormat, size, usage) *)
Allocate(halPixelFormat) ==
  /\ sessionAlive
  /\ Len(buffers) < MaxAllocs
  /\ issued # Handles
  /\ \E reply \in AllocReplies :
       /\ lastReply' = [status |-> reply.status, handle |-> reply.handle,
                        vendor |-> reply.vendor, format |-> halPixelFormat]
       /\ issued' = IF reply.status = NO_ERROR /\ reply.handle # nullptr
                    THEN issued \cup {reply.handle} ELSE issued
       /\ IF ~StatusOk(reply.status)
          THEN /\ lastLog' = "Error"
               /\ ret' = Absent
               /\ UNCHANGED << buffers, dereferenced >>
          ELSE IF ~HandleValid(reply.handle)
          THEN /\ lastLog' = "Fatal"
               /\ ret' = Absent
               /\ UNCHANGED << buffers, dereferenced >>
          ELSE LET planes == BuildPlanes(reply.vendor, halPixelFormat)
               IN  /\ dereferenced' = dereferenced \cup {reply.handle}
                   /\ lastLog' = "Debug"
                   /\ buffers' = Append(buffers, GenericFrameBufferData(reply.handle, planes))
                   /\ ret' = [present |-> TRUE, handle |-> reply.handle, planes |-> planes]
  /\ UNCHANGED << sessionAlive, freeCalls, lastFree >>

(* Variant: the destructor does not call free. *)
DestroyBufferNoFree(i) ==
  /\ i \in 1..Len(buffers)
  /\ buffers[i].alive
  /\ buffers' = [buffers EXCEPT ![i] = [handle_ |-> @.handle_, planes |-> <<>>, alive |-> FALSE]]
  /\ UNCHANGED << sessionAlive, issued, freeCalls, lastReply, ret, dereferenced, lastFree, lastLog >>

(* GenericFrameBufferData::~GenericFrameBufferData() of the i-th buffer *)
DestroyBuffer(i) ==
  /\ i \in 1..Len(buffers)
  /\ buffers[i].alive
  /\ \E status \in Statuses :
       /\ freeCalls' = [freeCalls EXCEPT ![buffers[i].handle_] = @ + 1]
       /\ lastFree' = [called |-> TRUE, status |-> status, sessionAlive |-> sessionAlive]
       /\ lastLog' = IF status # NO_ERROR THEN "Error" ELSE lastLog
  /\ buffers' = [buffers EXCEPT ![i] = [handle_ |-> @.handle_, planes |-> <<>>, alive |-> FALSE]]
  /\ UNCHANGED << sessionAlive, issued, lastReply, ret, dereferenced >>

(* PlatformFrameBufferAllocator::Private::~Private() = default *)
DestroySession ==
  /\ sessionAlive
  /\ sessionAlive' = FALSE
  /\ UNCHANGED << issued, freeCalls, buffers, lastReply, ret, dereferenced, lastFree, lastLog >>

Next ==
  \/ \E f \in HalFormats : Allocate(f)
  \/ \E i \in 1..MaxAllocs : DestroyBuffer(i)
  \/ DestroySession

Spec == Init /\ [][Next]_vars

(***************************************************************************)
(* Properties                                                              *)
(***************************************************************************)

BufferIds == 1..Len(buffers)
Destroyed(h) == { i \in BufferIds : buffers[i].handle_ = h /\ ~buffers[i].alive }
LiveHandles == { buffers[i].handle_ : i \in { j \in BufferIds : buffers[j].alive } }
AllocateStep == \E f \in HalFormats : Allocate(f)

(* C1: destroying a buffer calls free exactly once, with the handle the     *)
(* buffer was constructed from, whatever status free returns; nothing else  *)
(* calls free: the free calls a handle has received are exactly the         *)
(* destroyed buffers that were constructed from it, at most one.            *)
C1_FreeExactlyOnce ==
  /\ \A h \in DOMAIN freeCalls : freeCalls[h] = Cardinality(Destroyed(h))
  /\ \A i \in BufferIds : freeCalls[buffers[i].handle_] = IF buffers[i].alive THEN 0 ELSE 1
  /\ \A i \in BufferIds : buffers[i].handle_ \in issued

(* C1 witness: a buffer was destroyed, free reported a failure, and another *)
(* buffer is still alive and unfreed.                                       *)
C1_Witness ==
  /\ \E i \in BufferIds : ~buffers[i].alive /\ freeCalls[buffers[i].handle_] = 1
  /\ \E i \in BufferIds : buffers[i].alive
  /\ lastFree.called /\ lastFree.status # NO_ERROR

(* C2 (as claimed): every buffer is destroyed before the session that       *)
(* produced it, so no buffer outlives the session and no free is issued     *)
(* after the session is gone.                                               *)
C2_OrderingEnforced ==
  /\ \A i \in BufferIds : buffers[i].alive => sessionAlive
  /\ lastFree.called => lastFree.sessionAlive

(* C3 (as claimed): the returned plane sequence is as long as the plane     *)
(* count the format table declares for the requested format.                *)
C3_PlaneCountFromFormat ==
  ret.present => Len(ret.planes) = numPlanes(lastReply.format)

(* C3 (amended): the returned plane sequence is as long as the vendor       *)
(* handle's num_planes, whatever the format table declares.                 *)
C3_PlaneCountFromVendor ==
  ret.present => Len(ret.planes) = lastReply.vendor.num_planes

(* C3 witness: a buffer with two planes was returned for a one-plane format. *)
C3_Witness ==
  /\ ret.present
  /\ Len(ret.planes) = 2
  /\ numPlanes(lastReply.format) = 1

C5_RefusedAllocation ==
  [][ (AllocateStep /\ lastReply'.status # NO_ERROR) =>
        /\ ret' = Absent
        /\ buffers' = buffers
        /\ dereferenced' = dereferenced
        /\ issued' = issued
        /\ freeCalls' = freeCalls
        /\ lastLog' = "Error" ]_vars

(* C5 witness: the platform refused the last request, leaving a non-null    *)
(* value in the handle out-parameter, while an earlier buffer is alive.     *)
C5_Witness ==
  /\ lastReply.status # NO_ERROR
  /\ lastReply.handle # nullptr
  /\ ret = Absent
  /\ \E i \in BufferIds : buffers[i].alive

(* C6: an allocate call the platform answers with success and a null handle *)
(* returns the absent result on the fatal path: the handle is never read    *)
(* through, and no buffer is constructed, ever, around a null handle.       *)
C6_NullHandle ==
  /\ [][ (AllocateStep /\ lastReply'.status = NO_ERROR /\ lastReply'.handle = nullptr) =>
           /\ ret' = Absent
           /\ buffers' = buffers
           /\ dereferenced' = dereferenced
           /\ lastLog' = "Fatal" ]_vars
  /\ [](nullptr \notin dereferenced)
  /\ [](\A i \in BufferIds : buffers[i].handle_ # nullptr)

(* C6 witness: the last request met success with a null handle, after an    *)
(* earlier request had produced a buffer.                                   *)
C6_Witness ==
  /\ lastReply.status = NO_ERROR
  /\ lastReply.handle = nullptr
  /\ lastLog = "Fatal"
  /\ ret = Absent
  /\ Len(buffers) = 1

(* C7: all planes of one buffer hold the same shared descriptor, the one    *)
(* made from index 0 of the handle's descriptor array.                      *)
C7_SharedDescriptor ==
  /\ ret.present =>
       \A i \in DOMAIN ret.planes : ret.planes[i].fd.dupOf = lastReply.vendor.fds[1]
  /\ \A b \in BufferIds : \A i, j \in DOMAIN buffers[b].planes :
       buffers[b].planes[i].fd = buffers[b].planes[j].fd

(* C7 witness: a two-plane buffer from a handle whose second descriptor     *)
(* differs from its first.                                                  *)
C7_Witness ==
  /\ ret.present
  /\ Len(ret.planes) = 2
  /\ lastReply.vendor.fds[2] # lastReply.vendor.fds[1]

(* C8 (as claimed): every returned plane has a non-negative offset and a    *)
(* positive length.                                                         *)
C8_PositiveLength ==
  ret.present =>
    \A i \in DOMAIN ret.planes : ret.planes[i].offset >= 0 /\ ret.planes[i].length > 0

(* C8 (amended): every returned plane has a non-negative offset, and its    *)
(* length is positive exactly when the vendor handle's sizes[i] is: a size  *)
(* of zero comes back as a length of zero.                                  *)
C8_LengthAsVendor ==
  ret.present =>
    \A i \in DOMAIN ret.planes :
      /\ ret.planes[i].offset >= 0
      /\ ret.planes[i].length >= 0
      /\ (ret.planes[i].length > 0 <=> lastReply.vendor.planes[i].size > 0)

(* C8 witness: a returned buffer with one plane of positive length and one  *)
(* of length zero.                                                          *)
C8_Witness ==
  /\ ret.present
  /\ \E i \in DOMAIN ret.planes : ret.planes[i].length > 0
  /\ \E i \in DOMAIN ret.planes : ret.planes[i].length = 0

(* C9: when the platform answers success with a non-null handle, allocate   *)
(* returns a present buffer that wraps that handle and the planes built     *)
(* from it; the handle is never dropped.                                    *)
C9_SuccessAlwaysWrapped ==
  /\ \A h \in issued : \E i \in BufferIds : buffers[i].handle_ = h
  /\ (lastReply.status = NO_ERROR /\ lastReply.handle # nullptr) =>
    /\ ret.present
    /\ ret.handle = lastReply.handle
    /\ Len(ret.planes) = lastReply.vendor.num_planes
    /\ \E i \in BufferIds :
         /\ buffers[i].handle_ = lastReply.handle
         /\ buffers[i].alive => buffers[i].planes = ret.planes

(* C9 witness: the second request succeeded and its buffer is alive and     *)
(* holds the returned planes.                                               *)
C9_Witness ==
  /\ lastReply.status = NO_ERROR /\ lastReply.handle # nullptr
  /\ Len(buffers) = 2
  /\ buffers[2].alive /\ buffers[2].handle_ = ret.handle
  /\ buffers[2].planes = ret.planes /\ Len(ret.planes) >= 1

(* C10: while the session is alive, the handles issued and not yet freed    *)
(* are exactly the handles of the live buffers, each held by one buffer;    *)
(* no handle is freed twice and none is freed that was not issued.          *)
C10_HandleAccounting ==
  sessionAlive =>
    /\ { h \in issued : freeCalls[h] = 0 } = LiveHandles
    /\ \A i, j \in BufferIds :
         (buffers[i].alive /\ buffers[j].alive /\ buffers[i].handle_ = buffers[j].handle_) => i = j
    /\ \A h \in DOMAIN freeCalls : freeCalls[h] <= 1
    /\ \A h \in DOMAIN freeCalls : freeCalls[h] > 0 => h \in issued

(* C10 witness: with the session alive, a buffer was allocated and          *)
(* destroyed, and a later buffer is alive and the only handle outstanding.  *)
C10_Witness ==
  /\ sessionAlive
  /\ Len(buffers) = 2
  /\ ~buffers[1].alive /\ buffers[2].alive
  /\ freeCalls[buffers[1].handle_] = 1
  /\ { h \in issued : freeCalls[h] = 0 } = { buffers[2].handle_ }

====
